---- MODULE Spec2Model ----
(***************************************************************************)
(* A model of redlens' collection core: the community selector             *)
(* (DataFetcher._get_target_subreddits, RedditClient.get_popular_          *)
(* subreddits / get_trending_subreddits) and the collection orchestrator   *)
(* (DataFetcher.fetch_all_data, DataFetcher._fetch_subreddit_data,         *)
(* RedditClient.get_top_comments).                                         *)
(*                                                                         *)
(* The platform (PRAW and the network behind it) is the environment: each  *)
(* of its answers is drawn with \E from a small set of listings, handles   *)
(* and comment forests, or is an exception.                                *)
(***************************************************************************)
EXTENDS Integers, Sequences, FiniteSets, TLC

\* ------------------------------------------------------------------ bounds

\* Longest target list a run is started with.
MaxTargets == 2

\* Longest candidate listing the platform answers a discovery request with.
MaxListing == 3

\* Largest limit a discovery call is made with.
MaxLimit == 2

\* Most replies one comment has, and most top-level comments of a post, in
\* the forests a get_top_comments call on the client is given.
MaxWidth == 2

\* Largest limit get_top_comments is called with on the client.
MaxCommentLimit == 4

\* How many times in a row extraction is applied to one handle.
MaxExtractions == 2

\* ------------------------------------------------------- values and helpers

\* Python's None, for a nullable attribute of a platform handle.
None == "<None>"

Min(a, b) == IF a < b THEN a ELSE b

\* All sequences over S of length at most n.
SeqsUpTo(S, n) == UNION {[1..k -> S] : k \in 0..n}

RECURSIVE SumSeq(_)
SumSeq(s) == IF s = <<>> THEN 0 ELSE Head(s) + SumSeq(Tail(s))

\* Community identifiers the runs are started with.
Names == {"news", "science"}

\* ------------------------------------------------------------ settings.py

\* FETCHING_CONFIG["posts_per_subreddit"], scaled down from 25.
posts_per_subreddit == 2

\* FETCHING_CONFIG["comments_per_post"], scaled down from 50.
comments_per_post == 2

\* ------------------------------------------------- the platform's handles

\* Submission handles. readable = FALSE is a handle whose lazy attribute
\* load raises when _extract_post_data reads it.
Post1 == [id |-> "p1", author |-> "alice", readable |-> TRUE]

Post2 == [id |-> "p2", author |-> None, readable |-> TRUE]

Post3 == [id |-> "p3", author |-> None, readable |-> FALSE]

\* The hot listings a community can have on the platform.
HotListings ==
    { <<>>, <<Post1>>, <<Post1, Post2>>, <<Post3>>, <<Post1, Post3>>,
      <<Post2, Post1, Post3>> }

\* hot called without its limit: the platform yields a whole listing.
hot_without_limit(limit) == HotListings

\* subreddit.hot(limit=limit): the platform yields at most limit handles.
hot(limit) == {hot_posts \in HotListings : Len(hot_posts) <= limit}

CommentNode(id, author, replies) ==
    [kind |-> "Comment", id |-> id, author |-> author, replies |-> replies]

MoreNode(id) ==
    [kind |-> "MoreComments", id |-> id, author |-> None, replies |-> <<>>]

\* Comment forests post.comments can hold once replace_more has run.
Forest1 ==
    << CommentNode("c1", "bob", << CommentNode("c2", None, <<>>) >>),
       CommentNode("c3", "carol", <<>>) >>

Forest2 == << CommentNode("c4", None, <<>>) >>

CommentForests == {Forest1, Forest2}

\* What a get_top_comments call meets: a loaded forest, or an exception
\* (replace_more or the lazy load failing).
CommentOutcomes ==
    {[ok |-> TRUE, forest |-> f] : f \in CommentForests}
        \cup {[ok |-> FALSE, forest |-> <<>>]}

\* The nodes a forest is built from, by depth: comments with and without
\* an author, with and without replies, and nodes that are not Comment
\* instances.
Depth3Nodes == { CommentNode("c6", "erin", <<>>) }

Depth2Nodes ==
    {CommentNode("c4", None, r) : r \in SeqsUpTo(Depth3Nodes, 1)}
        \cup {MoreNode("m2")}

Depth1Nodes ==
    {CommentNode("c1", "bob", r) : r \in SeqsUpTo(Depth2Nodes, MaxWidth)}
        \cup {CommentNode("c3", "carol", r) : r \in SeqsUpTo(Depth2Nodes, 1)}
        \cup {MoreNode("m1")}

\* The forests list(post.comments) can be when the loop of
\* get_top_comments starts.
ClientForests == SeqsUpTo(Depth1Nodes, MaxWidth)

\* What a get_top_comments call on the client meets.
ClientCommentOutcomes ==
    {[ok |-> TRUE, forest |-> f] : f \in ClientForests}
        \cup {[ok |-> FALSE, forest |-> <<>>]}

\* ------------------------------------------------------- reddit_client.py

\* CommentLoop putting the replies at the front of the queue: a
\* depth-first walk.
RECURSIVE CommentLoopDepthFirst(_, _, _)
CommentLoopDepthFirst(comment_queue, all_comments, limit) ==
    IF comment_queue # <<>> /\ Len(all_comments) < limit
    THEN LET comment == Head(comment_queue)
             rest    == Tail(comment_queue)
         IN  IF comment.kind = "Comment"
             THEN CommentLoopDepthFirst(comment.replies \o rest,
                                        Append(all_comments, comment), limit)
             ELSE CommentLoopDepthFirst(rest, all_comments, limit)
    ELSE all_comments

\* The while loop of get_top_comments: a queue, popped at the front, each
\* Comment appended to the result and its replies put at the back.
RECURSIVE CommentLoop(_, _, _)
CommentLoop(comment_queue, all_comments, limit) ==
    IF comment_queue # <<>> /\ Len(all_comments) < limit
    THEN LET comment == Head(comment_queue)
             rest    == Tail(comment_queue)
         IN  IF comment.kind = "Comment"
             THEN CommentLoop(rest \o comment.replies,
                              Append(all_comments, comment), limit)
             ELSE CommentLoop(rest, all_comments, limit)
    ELSE all_comments

\* get_top_comments with the loop running while len(all_comments) <= limit
\* and the result returned unsliced.
get_top_comments_one_more(forest, limit) ==
    CommentLoop(forest, <<>>, limit + 1)

\* get_top_comments on a post whose forest loaded: all_comments[:limit].
get_top_comments(forest, limit) ==
    LET all_comments == CommentLoop(forest, <<>>, limit)
    IN  SubSeq(all_comments, 1, Min(limit, Len(all_comments)))

\* A subscriber count: None (unknown), or a number.
NoCount == [known |-> FALSE, count |-> 0]

Count(n) == [known |-> TRUE, count |-> n]

Candidate(name, over18, subscribers) ==
    [display_name |-> name, over18 |-> over18, subscribers |-> subscribers]

\* The communities the platform's popular listing is made of.
Candidates ==
    { Candidate("news", FALSE, Count(20000)),
      Candidate("AskScience", FALSE, NoCount),
      Candidate("GoneWild", FALSE, Count(900000)),
      Candidate("pics", TRUE, Count(900000)),
      Candidate("tiny", FALSE, Count(500)),
      Candidate("empty", FALSE, Count(0)),
      Candidate("funny", FALSE, Count(60000)),
      Candidate("nightlife", TRUE, Count(500)) }

\* The characters of the display names above.
Chars(name) ==
    CASE name = "news"       -> <<"n", "e", "w", "s">>
      [] name = "AskScience" -> <<"A", "s", "k", "S", "c", "i", "e", "n", "c", "e">>
      [] name = "GoneWild"   -> <<"G", "o", "n", "e", "W", "i", "l", "d">>
      [] name = "pics"       -> <<"p", "i", "c", "s">>
      [] name = "tiny"       -> <<"t", "i", "n", "y">>
      [] name = "empty"      -> <<"e", "m", "p", "t", "y">>
      [] name = "funny"      -> <<"f", "u", "n", "n", "y">>
      [] name = "nightlife"  -> <<"n", "i", "g", "h", "t", "l", "i", "f", "e">>

UpperCase ==
    << "A", "B", "C", "D", "E", "F", "G", "H", "I", "J", "K", "L", "M",
       "N", "O", "P", "Q", "R", "S", "T", "U", "V", "W", "X", "Y", "Z" >>

LowerCase ==
    << "a", "b", "c", "d", "e", "f", "g", "h", "i", "j", "k", "l", "m",
       "n", "o", "p", "q", "r", "s", "t", "u", "v", "w", "x", "y", "z" >>

\* str.lower(), character by character.
lower(chars) ==
    [k \in 1..Len(chars) |->
        IF \E u \in 1..Len(UpperCase) : UpperCase[u] = chars[k]
        THEN LowerCase[CHOOSE u \in 1..Len(UpperCase) : UpperCase[u] = chars[k]]
        ELSE chars[k]]

\* keyword in text, for two strings.
IsSubstring(keyword, text) ==
    \E k \in 0..(Len(text) - Len(keyword)) :
        SubSeq(text, k + 1, k + Len(keyword)) = keyword

excluded_keywords ==
    { <<"n", "s", "f", "w">>, <<"p", "o", "r", "n">>, <<"s", "e", "x">>,
      <<"x", "x", "x">>, <<"a", "d", "u", "l", "t">>,
      <<"o", "n", "l", "y", "f", "a", "n", "s">>, <<"g", "o", "n", "e">>,
      <<"w", "i", "l", "d">>,
      <<"c", "i", "r", "c", "l", "e", "j", "e", "r", "k">>,
      <<"j", "e", "r", "k">>,
      <<"s", "h", "i", "t", "p", "o", "s", "t">>,
      <<"c", "o", "p", "y", "p", "a", "s", "t", "a">> }

CandidateNames == {c.display_name : c \in Candidates}

\* any(keyword in subreddit_name_lower for keyword in excluded_keywords),
\* tabulated over the display names.
KeywordMatches ==
    [name \in CandidateNames |->
        \E keyword \in excluded_keywords :
            IsSubstring(keyword, lower(Chars(name)))]

HasExcludedKeyword(name) == KeywordMatches[name]

\* subreddit.subscribers and subreddit.subscribers < threshold:
\* None and 0 are both falsy.
TooFewSubscribers(subscribers, threshold) ==
    /\ subscribers.known
    /\ subscribers.count # 0
    /\ subscribers.count < threshold

\* Where the filter loop stands when it is left: the names appended so
\* far, and the candidates the iteration never reached.
LoopExit(filtered, unvisited) ==
    [filtered |-> filtered, unvisited |-> unvisited]

\* FilterLoop inserting each accepted name at the front of the list.
RECURSIVE FilterLoopPrepending(_, _, _, _)
FilterLoopPrepending(candidates, filtered, limit, threshold) ==
    IF candidates = <<>> THEN LoopExit(filtered, <<>>)
    ELSE LET subreddit == Head(candidates)
             rest      == Tail(candidates)
         IN  IF \/ subreddit.over18
                \/ HasExcludedKeyword(subreddit.display_name)
                \/ TooFewSubscribers(subreddit.subscribers, threshold)
             THEN FilterLoopPrepending(rest, filtered, limit, threshold)
             ELSE LET accepted == <<subreddit.display_name>> \o filtered
                  IN  IF Len(accepted) >= limit
                      THEN LoopExit(accepted, rest)
                      ELSE FilterLoopPrepending(rest, accepted, limit,
                                                threshold)

\* FilterLoop without the break: the loop reads the whole listing and the
\* final slice alone cuts the list.
RECURSIVE FilterLoopWithoutBreak(_, _, _, _)
FilterLoopWithoutBreak(candidates, filtered, limit, threshold) ==
    IF candidates = <<>> THEN LoopExit(filtered, <<>>)
    ELSE LET subreddit == Head(candidates)
             rest      == Tail(candidates)
         IN  IF \/ subreddit.over18
                \/ HasExcludedKeyword(subreddit.display_name)
                \/ TooFewSubscribers(subreddit.subscribers, threshold)
             THEN FilterLoopWithoutBreak(rest, filtered, limit, threshold)
             ELSE FilterLoopWithoutBreak(rest,
                      Append(filtered, subreddit.display_name), limit,
                      threshold)

\* The filter loop of get_popular_subreddits and get_trending_subreddits,
\* which differ in the threshold only.
RECURSIVE FilterLoop(_, _, _, _)
FilterLoop(candidates, filtered, limit, threshold) ==
    IF candidates = <<>> THEN LoopExit(filtered, <<>>)
    ELSE LET subreddit == Head(candidates)
             rest      == Tail(candidates)
         IN  IF subreddit.over18
             THEN FilterLoop(rest, filtered, limit, threshold)
             ELSE IF HasExcludedKeyword(subreddit.display_name)
             THEN FilterLoop(rest, filtered, limit, threshold)
             ELSE IF TooFewSubscribers(subreddit.subscribers, threshold)
             THEN FilterLoop(rest, filtered, limit, threshold)
             ELSE LET accepted == Append(filtered, subreddit.display_name)
                  IN  IF Len(accepted) >= limit
                      THEN LoopExit(accepted, rest)
                      ELSE FilterLoop(rest, accepted, limit, threshold)

\* How many candidates of the listing the loop read before it was left.
Evaluated(candidates, limit, threshold) ==
    Len(candidates)
        - Len(FilterLoop(candidates, <<>>, limit, threshold).unvisited)

PopularThreshold == 10000

TrendingThreshold == 50000

PopularMultiplier == 2

TrendingMultiplier == 3

\* get_popular_subreddits filtering with the trending threshold.
get_popular_subreddits_trending_threshold(candidates, limit) ==
    LET filtered_subreddits ==
            FilterLoop(candidates, <<>>, limit, TrendingThreshold).filtered
    IN  SubSeq(filtered_subreddits, 1, Min(limit, Len(filtered_subreddits)))

\* get_popular_subreddits on the listing the platform answered with.
get_popular_subreddits(candidates, limit) ==
    LET filtered_subreddits ==
            FilterLoop(candidates, <<>>, limit, PopularThreshold).filtered
    IN  SubSeq(filtered_subreddits, 1, Min(limit, Len(filtered_subreddits)))

\* get_trending_subreddits on the listing the platform answered with.
get_trending_subreddits(candidates, limit) ==
    LET filtered_trending ==
            FilterLoop(candidates, <<>>, limit, TrendingThreshold).filtered
    IN  SubSeq(filtered_trending, 1, Min(limit, Len(filtered_trending)))

\* reddit.subreddits.popular(limit=n): at most n candidates, or an error.
PopularAnswers(n) ==
    {[ok |-> TRUE, listing |-> l] :
        l \in SeqsUpTo(Candidates, Min(n, MaxListing))}
        \cup {[ok |-> FALSE, listing |-> <<>>]}

\* -------------------------------------------------------- data_fetcher.py

\* AuthorOf without the conditional: str(x.author), whatever the author.
AuthorOfUnconditional(handle) == handle.author

\* str(x.author) if x.author else "[deleted]"
AuthorOf(handle) ==
    IF handle.author # None THEN handle.author ELSE "[deleted]"

_extract_post_data(post) ==
    [id |-> post.id, author |-> AuthorOf(post), comments |-> <<>>]

_extract_comment_data(comment) ==
    [id |-> comment.id, author |-> AuthorOf(comment)]

\* The list comprehension over the comments get_top_comments returned.
ExtractComments(comments) ==
    [k \in 1..Len(comments) |-> _extract_comment_data(comments[k])]

\* The info mapping: empty, or what get_subreddit_info returned.
EmptyInfo == {}

InfoOf(name) == {<<"name", name>>}

VARIABLES
    target_subreddits,  \* self.target_subreddits
    pc,                 \* where fetch_all_data stands
    i,                  \* the loop's enumerate index, from 1
    metadata,           \* collected_data["metadata"]
    subreddits,         \* collected_data["subreddits"]
    summary,            \* collected_data["summary"]
    subreddit_data,     \* _fetch_subreddit_data's snapshot under construction
    posts,              \* the listing get_hot_posts returned
    exc,                \* str(e) of the exception in flight
    calls,              \* history: every client call and sleep, in order
    platform,           \* history: what the platform answered in this attempt
    attempts,           \* history: how each finished attempt ended
    FETCHING_CONFIG,    \* settings.FETCHING_CONFIG, the module's global
    DEFAULT_SUBREDDITS, \* settings.DEFAULT_SUBREDDITS
    FULL_SUBREDDIT_LIST, \* settings.FULL_SUBREDDIT_LIST
    credentials,        \* which of reddit_client's credentials are set
    reddit_client,      \* self.reddit_client: "none", "mock" or "created"
    config,             \* self.config
    request,            \* history: the discovery call made on the client
    listing,            \* history: the candidates the platform answered with
    result,             \* history: what the discovery call returned
    evaluated,          \* history: how many candidates the filter loop read
    args,               \* the command line of run_data_collection.py
    exit_code,          \* what main() returned, if it has
    queue,              \* get_top_comments' queue while it loops
    shared_objects      \* the Run Result's fields that are the very object
                        \* a field of the fetcher is, not a copy of it

fetchVars == << i, metadata, subreddits, summary, subreddit_data, posts,
                platform, attempts >>

selVars == << FETCHING_CONFIG, DEFAULT_SUBREDDITS, FULL_SUBREDDIT_LIST,
              credentials, reddit_client, config, request, listing, result,
              evaluated, queue, args, exit_code >>

vars == << target_subreddits, pc, exc, calls, fetchVars, selVars,
          shared_objects >>

Call(op, arg, ok) == [op |-> op, arg |-> arg, ok |-> ok]

NoSnapshot == [name |-> None, info |-> EmptyInfo, posts |-> <<>>]

NoPlatform == [info |-> "none", hot |-> "none", comments |-> <<>>]

ZeroSummary ==
    [successful_subreddits |-> 0, failed_subreddits |-> 0,
     total_posts |-> 0, total_comments |-> 0, errors |-> <<>>]

\* DictSet leaving a key that is already set as it is.
DictSetKeepingFirst(m, k, v) ==
    IF k \in DOMAIN m THEN m
    ELSE [n \in DOMAIN m \cup {k} |-> IF n = k THEN v ELSE m[n]]

\* The mapping m with key k set to v (dict item assignment).
DictSet(m, k, v) ==
    [n \in DOMAIN m \cup {k} |-> IF n = k THEN v ELSE m[n]]

EmptyDict == [n \in {} |-> NoSnapshot]

CredentialNames == {"CLIENT_ID", "CLIENT_SECRET", "USER_AGENT"}

\* FETCHING_CONFIG as settings.py writes it, the counts scaled down.
DefaultConfig ==
    [use_development_list |-> TRUE, use_dynamic_discovery |-> TRUE,
     dynamic_subreddit_count |-> MaxLimit]

NoConfig ==
    [use_development_list |-> FALSE, use_dynamic_discovery |-> FALSE,
     dynamic_subreddit_count |-> 0]

NoRequest == [op |-> None, limit |-> 0]

\* No fetch_all_data run has started.
FetchIdle ==
    /\ i = 0
    /\ metadata = [total_subreddits |-> 0, subreddit_list |-> <<>>,
                   fetch_completed |-> FALSE]
    /\ subreddits = EmptyDict
    /\ summary = ZeroSummary
    /\ subreddit_data = NoSnapshot
    /\ posts = <<>>
    /\ exc = None
    /\ calls = <<>>
    /\ platform = NoPlatform
    /\ attempts = <<>>
    /\ shared_objects = {}

\* No discovery call has been made on the client.
ClientIdle ==
    /\ request = NoRequest
    /\ listing = <<>>
    /\ result = <<>>
    /\ evaluated = 0
    /\ queue = <<>>

NoArgs == [output |-> None, verbose |-> FALSE]

\* main()'s return value: none yet, or a number.
NotReturned == [returned |-> FALSE, code |-> 0]

Returned(n) == [returned |-> TRUE, code |-> n]

\* main() of run_data_collection.py is not running.
MainIdle ==
    /\ args = NoArgs
    /\ exit_code = NotReturned

\* A constructed DataFetcher, with any target list, about to run
\* fetch_all_data.
Init ==
    /\ target_subreddits \in SeqsUpTo(Names, MaxTargets)
    /\ pc = "idle"
    /\ FetchIdle
    /\ ClientIdle
    /\ MainIdle
    /\ FETCHING_CONFIG = DefaultConfig
    /\ DEFAULT_SUBREDDITS = <<"news", "science">>
    /\ FULL_SUBREDDIT_LIST = <<"news", "science", "funny">>
    /\ credentials = CredentialNames
    /\ reddit_client = "created"
    /\ config = FETCHING_CONFIG

\* BeginFetchAll storing self.target_subreddits itself, not its copy.
BeginFetchAllSharingList ==
    /\ pc = "idle"
    /\ metadata' = [total_subreddits |-> Len(target_subreddits),
                    subreddit_list |-> target_subreddits,
                    fetch_completed |-> FALSE]
    /\ subreddits' = EmptyDict
    /\ summary' = ZeroSummary
    /\ i' = 1
    /\ pc' = IF target_subreddits = <<>> THEN "finalize" ELSE "fetch"
    /\ UNCHANGED << target_subreddits, subreddit_data, posts, exc, calls,
                    platform, attempts >>
    /\ shared_objects' = {"metadata.config", "metadata.subreddit_list"}
    /\ UNCHANGED selVars

\* fetch_all_data, up to the loop: the empty Run Result shell, with
\* self.config itself and a copy of self.target_subreddits.
BeginFetchAll ==
    /\ pc = "idle"
    /\ metadata' = [total_subreddits |-> Len(target_subreddits),
                    subreddit_list |-> target_subreddits,
                    fetch_completed |-> FALSE]
    /\ subreddits' = EmptyDict
    /\ summary' = ZeroSummary
    /\ i' = 1
    /\ pc' = IF target_subreddits = <<>> THEN "finalize" ELSE "fetch"
    /\ UNCHANGED << target_subreddits, subreddit_data, posts, exc, calls,
                    platform, attempts >>
    /\ shared_objects' = {"metadata.config"}
    /\ UNCHANGED selVars

\* Entering _fetch_subreddit_data: the snapshot's shell.
NewSnapshot(name) == [name |-> name, info |-> EmptyInfo, posts |-> <<>>]

\* get_subreddit_info answered: the try block of _fetch_subreddit_data.
FetchInfoOk ==
    /\ pc = "fetch"
    /\ LET name == target_subreddits[i]
       IN  /\ subreddit_data' = [NewSnapshot(name) EXCEPT !.info = InfoOf(name)]
           /\ calls' = calls \o << Call("_fetch_subreddit_data", name, TRUE),
                                   Call("get_subreddit_info", name, TRUE) >>
    /\ platform' = [NoPlatform EXCEPT !.info = "ok"]
    /\ posts' = <<>>
    /\ pc' = "hot"
    /\ UNCHANGED << target_subreddits, i, metadata, subreddits, summary, exc,
                    attempts >>
    /\ UNCHANGED << selVars, shared_objects >>

\* FetchInfoFailed without the try block around get_subreddit_info: the
\* error leaves _fetch_subreddit_data.
FetchInfoFailedUncaught ==
    /\ pc = "fetch"
    /\ LET name == target_subreddits[i]
       IN  /\ subreddit_data' = NewSnapshot(name)
           /\ calls' = calls \o << Call("_fetch_subreddit_data", name, TRUE),
                                   Call("get_subreddit_info", name, FALSE) >>
    /\ platform' = [NoPlatform EXCEPT !.info = "raise"]
    /\ posts' = <<>>
    /\ exc' = "Failed to fetch subreddit info"
    /\ pc' = "raised"
    /\ UNCHANGED << target_subreddits, i, metadata, subreddits, summary,
                    attempts >>
    /\ UNCHANGED << selVars, shared_objects >>

\* get_subreddit_info raised: the warning is logged, info stays empty.
FetchInfoFailed ==
    /\ pc = "fetch"
    /\ LET name == target_subreddits[i]
       IN  /\ subreddit_data' = NewSnapshot(name)
           /\ calls' = calls \o << Call("_fetch_subreddit_data", name, TRUE),
                                   Call("get_subreddit_info", name, FALSE) >>
    /\ platform' = [NoPlatform EXCEPT !.info = "raise"]
    /\ posts' = <<>>
    /\ pc' = "hot"
    /\ UNCHANGED << target_subreddits, i, metadata, subreddits, summary, exc,
                    attempts >>
    /\ UNCHANGED << selVars, shared_objects >>

\* Where _fetch_subreddit_data goes once k posts of the listing are done.
AfterPost(k, hot_posts) == IF k >= Len(hot_posts) THEN "return" ELSE "post"

\* get_hot_posts: a listing of at most limit handles, or an exception,
\* which _fetch_subreddit_data does not catch.
FetchHotPosts ==
    /\ pc = "hot"
    /\ \/ \E hot_posts \in hot(posts_per_subreddit) :
            /\ posts' = hot_posts
            /\ platform' = [platform EXCEPT !.hot = "ok"]
            /\ calls' = Append(calls,
                   Call("get_hot_posts", subreddit_data.name, TRUE))
            /\ pc' = AfterPost(0, hot_posts)
            /\ exc' = exc
       \/ /\ posts' = <<>>
          /\ platform' = [platform EXCEPT !.hot = "raise"]
          /\ calls' = Append(calls,
                 Call("get_hot_posts", subreddit_data.name, FALSE))
          /\ exc' = "Failed to fetch hot posts"
          /\ pc' = "raised"
    /\ UNCHANGED << target_subreddits, i, metadata, subreddits, summary,
                    subreddit_data, attempts >>
    /\ UNCHANGED << selVars, shared_objects >>

\* AppendPost with the failure handler emptying the comments of every post
\* collected so far, not only of the post whose fetch raised.
AppendPostClearingAll(data, post_data, outcome) ==
    LET comments ==
            IF outcome.ok
            THEN ExtractComments(
                     get_top_comments(outcome.forest, comments_per_post))
            ELSE <<>>
        kept ==
            IF outcome.ok THEN data.posts
            ELSE [k \in 1..Len(data.posts) |->
                     [data.posts[k] EXCEPT !.comments = <<>>]]
    IN  [data EXCEPT !.posts =
            Append(kept, [post_data EXCEPT !.comments = comments])]

\* The body of the loop over posts after the comment fetch: the comments
\* are the extracted ones, or the empty list when the fetch raised, and the
\* post is appended.
AppendPost(data, post_data, outcome) ==
    LET comments ==
            IF outcome.ok
            THEN ExtractComments(
                     get_top_comments(outcome.forest, comments_per_post))
            ELSE <<>>
    IN  [data EXCEPT !.posts =
            Append(@, [post_data EXCEPT !.comments = comments])]

\* One iteration of the loop over posts: extract the post, fetch its
\* comments, append it. The extraction is outside the try block.
ProcessPost ==
    /\ pc = "post"
    /\ LET k    == Len(subreddit_data.posts) + 1
           post == posts[k]
       IN  \/ /\ post.readable
              /\ \E outcome \in CommentOutcomes :
                    /\ subreddit_data' = AppendPost(subreddit_data,
                           _extract_post_data(post), outcome)
                    /\ platform' = [platform EXCEPT
                           !.comments = Append(@, outcome)]
                    /\ calls' = Append(calls,
                           Call("get_top_comments", post.id, outcome.ok))
              /\ pc' = AfterPost(k, posts)
              /\ exc' = exc
           \/ /\ ~post.readable
              /\ exc' = "AttributeError"
              /\ pc' = "raised"
              /\ UNCHANGED << subreddit_data, platform, calls >>
    /\ UNCHANGED << target_subreddits, i, metadata, subreddits, summary,
                    posts, attempts >>
    /\ UNCHANGED << selVars, shared_objects >>

\* RecordSuccess adding the snapshot's posts to the success counter.
RecordSuccessCountingPosts(s, data) ==
    [s EXCEPT
        !.successful_subreddits = @ + Len(data.posts),
        !.total_posts = @ + Len(data.posts),
        !.total_comments = @ + SumSeq(
            [k \in 1..Len(data.posts) |-> Len(data.posts[k].comments)])]

\* The summary after a target's snapshot came back.
RecordSuccess(s, data) ==
    [s EXCEPT
        !.successful_subreddits = @ + 1,
        !.total_posts = @ + Len(data.posts),
        !.total_comments = @ + SumSeq(
            [k \in 1..Len(data.posts) |-> Len(data.posts[k].comments)])]

\* RecordFailure that also counts the posts processed before the raise.
RecordFailureCountingPartial(s, name, msg) ==
    [s EXCEPT
        !.failed_subreddits = @ + 1,
        !.total_posts = @ + Len(subreddit_data.posts),
        !.errors = Append(@, [subreddit |-> name, error |-> msg])]

\* RecordFailure putting the new entry at the front of errors.
RecordFailurePrepending(s, name, msg) ==
    [s EXCEPT
        !.failed_subreddits = @ + 1,
        !.errors = << [subreddit |-> name, error |-> msg] >> \o @]

\* RecordFailure appending the entry without counting the failure.
RecordFailureWithoutCount(s, name, msg) ==
    [s EXCEPT
        !.errors = Append(@, [subreddit |-> name, error |-> msg])]

\* The summary after a target's fetch raised.
RecordFailure(s, name, msg) ==
    [s EXCEPT
        !.failed_subreddits = @ + 1,
        !.errors = Append(@, [subreddit |-> name, error |-> msg])]

\* The try branch of fetch_all_data's loop body.
FetchSucceeded ==
    /\ pc = "return"
    /\ subreddits' = DictSet(subreddits, target_subreddits[i], subreddit_data)
    /\ summary' = RecordSuccess(summary, subreddit_data)
    /\ attempts' = Append(attempts,
           [name |-> target_subreddits[i], ok |-> TRUE,
            info |-> subreddit_data.info,
            posts |-> subreddit_data.posts,
            processed |-> Len(subreddit_data.posts)])
    /\ subreddit_data' = NoSnapshot
    /\ posts' = <<>>
    /\ platform' = NoPlatform
    /\ pc' = "pace"
    /\ UNCHANGED << target_subreddits, i, metadata, exc, calls >>
    /\ UNCHANGED << selVars, shared_objects >>

\* FetchFailed with the handler leaving the loop: the first failure ends
\* the run.
FetchFailedBreaking ==
    /\ pc = "raised"
    /\ summary' = RecordFailure(summary, target_subreddits[i], exc)
    /\ attempts' = Append(attempts,
           [name |-> target_subreddits[i], ok |-> FALSE, posts |-> <<>>,
            info |-> EmptyInfo,
            processed |-> Len(subreddit_data.posts)])
    /\ subreddit_data' = NoSnapshot
    /\ posts' = <<>>
    /\ platform' = NoPlatform
    /\ exc' = None
    /\ pc' = "finalize"
    /\ UNCHANGED << target_subreddits, i, metadata, subreddits, calls >>
    /\ UNCHANGED << selVars, shared_objects >>

\* FetchFailed storing the snapshot as far as it was built.
FetchFailedKeepingPartial ==
    /\ pc = "raised"
    /\ summary' = RecordFailure(summary, target_subreddits[i], exc)
    /\ subreddits' = DictSet(subreddits, target_subreddits[i], subreddit_data)
    /\ attempts' = Append(attempts,
           [name |-> target_subreddits[i], ok |-> FALSE, posts |-> <<>>,
            info |-> EmptyInfo,
            processed |-> Len(subreddit_data.posts)])
    /\ subreddit_data' = NoSnapshot
    /\ posts' = <<>>
    /\ platform' = NoPlatform
    /\ exc' = None
    /\ pc' = "pace"
    /\ UNCHANGED << target_subreddits, i, metadata, calls >>
    /\ UNCHANGED << selVars, shared_objects >>

\* The except branch of fetch_all_data's loop body.
FetchFailed ==
    /\ pc = "raised"
    /\ summary' = RecordFailure(summary, target_subreddits[i], exc)
    /\ attempts' = Append(attempts,
           [name |-> target_subreddits[i], ok |-> FALSE, posts |-> <<>>,
            info |-> EmptyInfo,
            processed |-> Len(subreddit_data.posts)])
    /\ subreddit_data' = NoSnapshot
    /\ posts' = <<>>
    /\ platform' = NoPlatform
    /\ exc' = None
    /\ pc' = "pace"
    /\ UNCHANGED << target_subreddits, i, metadata, subreddits, calls >>
    /\ UNCHANGED << selVars, shared_objects >>

\* ShouldSleep off by one: the delay also follows the last target.
ShouldSleepAfterLast(k, targets) == k <= Len(targets)

\* if i < len(self.target_subreddits)
ShouldSleep(k, targets) == k < Len(targets)

\* The rate limiting delay, and the step to the next target.
Pace ==
    /\ pc = "pace"
    /\ \/ /\ ShouldSleep(i, target_subreddits)
          /\ calls' = Append(calls, Call("sleep", None, TRUE))
       \/ /\ ~ShouldSleep(i, target_subreddits)
          /\ calls' = calls
    /\ i' = i + 1
    /\ pc' = IF i < Len(target_subreddits) THEN "fetch" ELSE "finalize"
    /\ UNCHANGED << target_subreddits, metadata, subreddits, summary,
                    subreddit_data, posts, exc, platform, attempts >>
    /\ UNCHANGED << selVars, shared_objects >>

\* Finalize reached only when some target succeeded.
FinalizeOnlyAfterSuccess ==
    /\ pc = "finalize"
    /\ summary.successful_subreddits > 0
    /\ metadata' = [metadata EXCEPT !.fetch_completed = TRUE]
    /\ pc' = "done"
    /\ UNCHANGED << target_subreddits, i, subreddits, summary,
                    subreddit_data, posts, exc, calls, platform, attempts >>
    /\ UNCHANGED << selVars, shared_objects >>

\* After the loop: fetch_duration_seconds and fetch_completed_at are set.
Finalize ==
    /\ pc = "finalize"
    /\ metadata' = [metadata EXCEPT !.fetch_completed = TRUE]
    /\ pc' = "done"
    /\ UNCHANGED << target_subreddits, i, subreddits, summary,
                    subreddit_data, posts, exc, calls, platform, attempts >>
    /\ UNCHANGED << selVars, shared_objects >>

Next ==
    \/ BeginFetchAll
    \/ FetchInfoOk
    \/ FetchInfoFailed
    \/ FetchHotPosts
    \/ ProcessPost
    \/ FetchSucceeded
    \/ FetchFailed
    \/ Pace
    \/ Finalize

Spec == Init /\ [][Next]_vars

\* ------------------------------------ the target list changed after a run

\* The Run Result's metadata once the fetcher's target list has become
\* targets by a change in place: subreddit_list follows when it is the
\* same list object, and stays when it is a copy.
MetadataAfterChange(meta, targets) ==
    IF "metadata.subreddit_list" \in shared_objects
    THEN [meta EXCEPT !.subreddit_list = targets]
    ELSE meta

\* The caller appends a name to fetcher.target_subreddits after
\* fetch_all_data has returned.
ChangeTargets ==
    /\ pc = "done"
    /\ \E name \in Names :
          target_subreddits' = Append(target_subreddits, name)
    /\ metadata' = MetadataAfterChange(metadata, target_subreddits')
    /\ pc' = "targets_changed"
    /\ UNCHANGED << i, subreddits, summary, subreddit_data, posts, exc,
                    calls, platform, attempts, selVars, shared_objects >>

NextReuse == Next \/ ChangeTargets

SpecReuse == Init /\ [][NextReuse]_vars

\* ----------------------------------------------- constructing a DataFetcher

\* settings.get_target_subreddits(): a copy of one of the static lists,
\* chosen by the global configuration.
get_target_subreddits ==
    IF FETCHING_CONFIG.use_development_list
    THEN DEFAULT_SUBREDDITS
    ELSE FULL_SUBREDDIT_LIST

Selected(targets, made, raised) ==
    [targets |-> targets, calls |-> made, raised |-> raised]

\* _get_target_subreddits testing use_dynamic_discovery before
\* use_development_list.
_get_target_subreddits_dynamic_first(cfg, answer) ==
    IF cfg.use_dynamic_discovery
    THEN LET asked == Call("subreddits.popular",
                 cfg.dynamic_subreddit_count * PopularMultiplier, answer.ok)
         IN  IF answer.ok
             THEN Selected(get_popular_subreddits(answer.listing,
                               cfg.dynamic_subreddit_count),
                           <<asked>>, FALSE)
             ELSE Selected(get_target_subreddits, <<asked>>, FALSE)
    ELSE Selected(get_target_subreddits, <<>>, FALSE)

\* _get_target_subreddits without the except branch: a discovery error
\* leaves DataFetcher().
_get_target_subreddits_propagating(cfg, answer) ==
    IF cfg.use_development_list
    THEN Selected(get_target_subreddits, <<>>, FALSE)
    ELSE IF cfg.use_dynamic_discovery
    THEN LET asked == Call("subreddits.popular",
                 cfg.dynamic_subreddit_count * PopularMultiplier, answer.ok)
         IN  IF answer.ok
             THEN Selected(get_popular_subreddits(answer.listing,
                               cfg.dynamic_subreddit_count),
                           <<asked>>, FALSE)
             ELSE Selected(<<>>, <<asked>>, TRUE)
    ELSE Selected(get_target_subreddits, <<>>, FALSE)

\* _get_target_subreddits returning the static list when discovery
\* succeeds with no name.
_get_target_subreddits_fallback_on_empty(cfg, answer) ==
    IF cfg.use_development_list
    THEN Selected(get_target_subreddits, <<>>, FALSE)
    ELSE IF cfg.use_dynamic_discovery
    THEN LET asked == Call("subreddits.popular",
                 cfg.dynamic_subreddit_count * PopularMultiplier, answer.ok)
             found == get_popular_subreddits(answer.listing,
                          cfg.dynamic_subreddit_count)
         IN  IF answer.ok /\ found # <<>>
             THEN Selected(found, <<asked>>, FALSE)
             ELSE Selected(get_target_subreddits, <<asked>>, FALSE)
    ELSE Selected(get_target_subreddits, <<>>, FALSE)

\* DataFetcher._get_target_subreddits under configuration cfg, answer being
\* what the platform's popular listing says if it is asked.
_get_target_subreddits(cfg, answer) ==
    IF cfg.use_development_list
    THEN Selected(get_target_subreddits, <<>>, FALSE)
    ELSE IF cfg.use_dynamic_discovery
    THEN LET asked == Call("subreddits.popular",
                 cfg.dynamic_subreddit_count * PopularMultiplier, answer.ok)
         IN  IF answer.ok
             THEN Selected(get_popular_subreddits(answer.listing,
                               cfg.dynamic_subreddit_count),
                           <<asked>>, FALSE)
             ELSE Selected(get_target_subreddits, <<asked>>, FALSE)
    ELSE Selected(get_target_subreddits, <<>>, FALSE)

\* RedditClient.__init__ testing any(...) where the code tests all(...).
CredentialsAny == credentials # {}

\* RedditClient.__init__: all([CLIENT_ID, CLIENT_SECRET, USER_AGENT]).
CredentialsComplete == credentials = CredentialNames

\* The static lists settings.py can be written with.
DefaultLists == { <<"news", "science">>, <<"science", "news", "science">> }

FullLists == { <<"news", "science", "funny">>, <<"funny", "funny">> }

\* Before DataFetcher(...) is called, under any configuration.
InitSelect ==
    /\ target_subreddits = <<>>
    /\ pc = "new"
    /\ FetchIdle
    /\ ClientIdle
    /\ MainIdle
    /\ FETCHING_CONFIG \in
          [use_development_list : BOOLEAN, use_dynamic_discovery : BOOLEAN,
           dynamic_subreddit_count : 0..MaxLimit]
    /\ DEFAULT_SUBREDDITS \in DefaultLists
    /\ FULL_SUBREDDIT_LIST \in FullLists
    /\ credentials \in SUBSET CredentialNames
    /\ reddit_client \in {"none", "mock"}
    /\ config = NoConfig

\* DataFetcher() without a client, the credentials incomplete:
\* RedditClient() raises ValueError.
ConstructWithoutCredentials ==
    /\ pc = "new"
    /\ reddit_client = "none"
    /\ ~CredentialsComplete
    /\ exc' = "Missing required Reddit API credentials"
    /\ pc' = "construct_raised"
    /\ UNCHANGED << target_subreddits, calls, fetchVars, selVars,
                    shared_objects >>

\* DataFetcher.__init__: the client, the configuration copy, the targets.
Construct ==
    /\ pc = "new"
    /\ reddit_client = "mock" \/ CredentialsComplete
    /\ reddit_client' = IF reddit_client = "mock" THEN "mock" ELSE "created"
    /\ config' = FETCHING_CONFIG
    /\ \E answer \in PopularAnswers(
              FETCHING_CONFIG.dynamic_subreddit_count * PopularMultiplier) :
          LET selected == _get_target_subreddits(config', answer)
          IN  /\ calls' = calls \o selected.calls
              /\ listing' = IF selected.calls # <<>> THEN answer.listing
                            ELSE listing
              /\ IF selected.raised
                 THEN /\ pc' = "construct_raised"
                      /\ exc' = "Failed to fetch popular subreddits"
                      /\ target_subreddits' = target_subreddits
                 ELSE /\ pc' = "constructed"
                      /\ exc' = exc
                      /\ target_subreddits' = selected.targets
    /\ UNCHANGED << fetchVars, FETCHING_CONFIG, DEFAULT_SUBREDDITS,
                    FULL_SUBREDDIT_LIST, credentials, request, result,
                    evaluated, queue, shared_objects, args, exit_code >>

NextSelect == ConstructWithoutCredentials \/ Construct

SpecSelect == InitSelect /\ [][NextSelect]_vars

\* ------------------------------ a fetcher being constructed, or one running

\* DataFetcher() under any configuration, or fetch_all_data of a fetcher
\* already constructed.
InitSelectOrFetch == InitSelect \/ Init

NextSelectOrFetch == NextSelect \/ Next

SpecSelectOrFetch == InitSelectOrFetch /\ [][NextSelectOrFetch]_vars

\* ------------------------------------------ discovery calls on the client

\* A RedditClient, about to be asked for a discovery list.
InitClient ==
    /\ target_subreddits = <<>>
    /\ pc = "client"
    /\ FetchIdle
    /\ ClientIdle
    /\ MainIdle
    /\ FETCHING_CONFIG = DefaultConfig
    /\ DEFAULT_SUBREDDITS = <<"news", "science">>
    /\ FULL_SUBREDDIT_LIST = <<"news", "science", "funny">>
    /\ credentials = CredentialNames
    /\ reddit_client = "created"
    /\ config = NoConfig

\* One discovery call: op with its over-fetch multiplier, the platform's
\* answer filtered by the operation's loop, an error re-raised.
Discover(op, multiplier, limit, answer, filtered, read) ==
    /\ pc = "client"
    /\ request' = [op |-> op, limit |-> limit]
    /\ calls' = Append(calls,
           Call("subreddits.popular", limit * multiplier, answer.ok))
    /\ listing' = answer.listing
    /\ IF answer.ok
       THEN /\ result' = filtered
            /\ evaluated' = read
            /\ exc' = exc
            /\ pc' = "client_returned"
       ELSE /\ result' = result
            /\ evaluated' = evaluated
            /\ exc' = "Failed to fetch subreddits"
            /\ pc' = "client_raised"
    /\ UNCHANGED << target_subreddits, fetchVars, FETCHING_CONFIG,
                    DEFAULT_SUBREDDITS, FULL_SUBREDDIT_LIST, credentials,
                    reddit_client, config, queue, shared_objects, args,
                    exit_code >>

\* CallPopular asking the platform for limit candidates only.
CallPopularAskingLimit ==
    \E limit \in 0..MaxLimit :
        \E answer \in PopularAnswers(limit) :
            Discover("get_popular_subreddits", 1, limit,
                     answer, get_popular_subreddits(answer.listing, limit),
                     Evaluated(answer.listing, limit, PopularThreshold))

CallPopular ==
    \E limit \in 0..MaxLimit :
        \E answer \in PopularAnswers(limit * PopularMultiplier) :
            Discover("get_popular_subreddits", PopularMultiplier, limit,
                     answer, get_popular_subreddits(answer.listing, limit),
                     Evaluated(answer.listing, limit, PopularThreshold))

CallTrending ==
    \E limit \in 0..MaxLimit :
        \E answer \in PopularAnswers(limit * TrendingMultiplier) :
            Discover("get_trending_subreddits", TrendingMultiplier, limit,
                     answer, get_trending_subreddits(answer.listing, limit),
                     Evaluated(answer.listing, limit, TrendingThreshold))

NextClient == CallPopular \/ CallTrending

SpecClient == InitClient /\ [][NextClient]_vars

\* ------------------------------------- get_top_comments calls on the client

\* A RedditClient and a post handle, about to be asked for the comments.
InitComments ==
    /\ target_subreddits = <<>>
    /\ pc = "comments"
    /\ FetchIdle
    /\ ClientIdle
    /\ MainIdle
    /\ FETCHING_CONFIG = DefaultConfig
    /\ DEFAULT_SUBREDDITS = <<"news", "science">>
    /\ FULL_SUBREDDIT_LIST = <<"news", "science", "funny">>
    /\ credentials = CredentialNames
    /\ reddit_client = "created"
    /\ config = NoConfig

\* get_top_comments(post, limit): the forest flattened by the loop and
\* cut to limit, an error of replace_more re-raised.
CallTopComments ==
    /\ pc = "comments"
    /\ \E limit \in 0..MaxCommentLimit :
          \E outcome \in ClientCommentOutcomes :
              /\ request' = [op |-> "get_top_comments", limit |-> limit]
              /\ calls' = Append(calls, Call("replace_more", 0, outcome.ok))
              /\ listing' = outcome.forest
              /\ IF outcome.ok
                 THEN /\ result' = get_top_comments(outcome.forest, limit)
                      /\ exc' = exc
                      /\ pc' = "comments_returned"
                 ELSE /\ result' = result
                      /\ exc' = "Failed to fetch comments from post"
                      /\ pc' = "comments_raised"
    /\ UNCHANGED << target_subreddits, fetchVars, FETCHING_CONFIG,
                    DEFAULT_SUBREDDITS, FULL_SUBREDDIT_LIST, credentials,
                    reddit_client, config, evaluated, queue, shared_objects,
                    args, exit_code >>

NextComments == CallTopComments

SpecComments == InitComments /\ [][NextComments]_vars

\* ------------------------------- get_top_comments, one iteration at a time

\* A node that is not a Comment instance and has replies of its own.
OtherNode(id, replies) ==
    [kind |-> "Other", id |-> id, author |-> None, replies |-> replies]

\* The top-level nodes of the forests the loop is followed through:
\* comments with and without replies, and nodes that are not comments,
\* with and without replies.
LoopNodes ==
    { CommentNode("c1", "bob", << CommentNode("c2", None, <<>>),
                                  OtherNode("x2", <<>>) >>),
      CommentNode("c3", "carol", <<>>),
      MoreNode("m1"),
      OtherNode("x1", << CommentNode("c7", "dan", <<>>) >>) }

LoopForests == SeqsUpTo(LoopNodes, MaxWidth)

LoopCommentOutcomes ==
    {[ok |-> TRUE, forest |-> f] : f \in LoopForests}
        \cup {[ok |-> FALSE, forest |-> <<>>]}

\* while comment_queue and len(all_comments) < limit
LoopRuns(comment_queue, all_comments, limit) ==
    comment_queue # <<>> /\ Len(all_comments) < limit

LoopState(comment_queue, all_comments) ==
    [comment_queue |-> comment_queue, all_comments |-> all_comments]

\* The loop body without the isinstance test: every node is appended and
\* its replies are put on the queue.
LoopBodyAnyNode(comment_queue, all_comments) ==
    LET comment == Head(comment_queue)
    IN  LoopState(Tail(comment_queue) \o comment.replies,
                  Append(all_comments, comment))

\* The loop body: pop(0), and for a Comment the append and the extend.
LoopBody(comment_queue, all_comments) ==
    LET comment == Head(comment_queue)
    IN  IF comment.kind = "Comment"
        THEN LoopState(Tail(comment_queue) \o comment.replies,
                       Append(all_comments, comment))
        ELSE LoopState(Tail(comment_queue), all_comments)

\* get_top_comments up to the loop: replace_more, the two lists.
BeginTopComments ==
    /\ pc = "comments"
    /\ \E limit \in 0..MaxCommentLimit :
          \E outcome \in LoopCommentOutcomes :
              /\ request' = [op |-> "get_top_comments", limit |-> limit]
              /\ calls' = Append(calls, Call("replace_more", 0, outcome.ok))
              /\ listing' = outcome.forest
              /\ IF outcome.ok
                 THEN /\ queue' = outcome.forest
                      /\ result' = <<>>
                      /\ exc' = exc
                      /\ pc' = "comments_loop"
                 ELSE /\ queue' = queue
                      /\ result' = result
                      /\ exc' = "Failed to fetch comments from post"
                      /\ pc' = "comments_raised"
    /\ UNCHANGED << target_subreddits, fetchVars, FETCHING_CONFIG,
                    DEFAULT_SUBREDDITS, FULL_SUBREDDIT_LIST, credentials,
                    reddit_client, config, evaluated, shared_objects,
                    args, exit_code >>

\* One iteration of the while loop.
IterateTopComments ==
    /\ pc = "comments_loop"
    /\ LoopRuns(queue, result, request.limit)
    /\ LET after == LoopBody(queue, result)
       IN  /\ queue' = after.comment_queue
           /\ result' = after.all_comments
    /\ UNCHANGED << target_subreddits, pc, exc, calls, fetchVars,
                    FETCHING_CONFIG, DEFAULT_SUBREDDITS, FULL_SUBREDDIT_LIST,
                    credentials, reddit_client, config, request, listing,
                    evaluated, shared_objects, args, exit_code >>

\* The loop is left: return all_comments[:limit].
ReturnTopComments ==
    /\ pc = "comments_loop"
    /\ ~LoopRuns(queue, result, request.limit)
    /\ result' = SubSeq(result, 1, Min(request.limit, Len(result)))
    /\ pc' = "comments_returned"
    /\ UNCHANGED << target_subreddits, exc, calls, fetchVars,
                    FETCHING_CONFIG, DEFAULT_SUBREDDITS, FULL_SUBREDDIT_LIST,
                    credentials, reddit_client, config, request, listing,
                    evaluated, queue, shared_objects, args, exit_code >>

NextCommentLoop ==
    \/ BeginTopComments
    \/ IterateTopComments
    \/ ReturnTopComments

SpecCommentLoop == InitComments /\ [][NextCommentLoop]_vars

\* ------------------------------------------------- the calls run to an end

\* The target lists the calls are followed to their end on: one of each
\* length, two names in turn, so that a name comes back from the third
\* target on.
RunTargets ==
    { [k \in 1..n |-> IF k % 2 = 1 THEN "news" ELSE "science"] :
          n \in 0..MaxTargets }

\* A call of fetch_all_data or of get_top_comments, taken step by step.
InitRun == (Init /\ target_subreddits \in RunTargets) \/ InitComments

NextRun == Next \/ NextCommentLoop

\* Both calls are sequential code on one thread: a statement that is
\* reached is executed, and a platform call returns or raises.
SpecRun == InitRun /\ [][NextRun]_vars /\ WF_vars(NextRun)

\* ------------------------------------------- main() of run_data_collection

\* The command lines main() is started with.
ArgsSet == [output : {None, "out.json"}, verbose : BOOLEAN]

\* main() at its try block: the arguments parsed, the configuration shown.
InitMain ==
    /\ target_subreddits = <<>>
    /\ pc = "main"
    /\ FetchIdle
    /\ ClientIdle
    /\ args \in ArgsSet
    /\ exit_code = NotReturned
    /\ FETCHING_CONFIG = DefaultConfig
    /\ DEFAULT_SUBREDDITS = <<"news", "science">>
    /\ FULL_SUBREDDIT_LIST = <<"news", "science", "funny">>
    /\ credentials \in SUBSET CredentialNames
    /\ reddit_client = "none"
    /\ config = NoConfig

\* The two except clauses of main(): the message, and return 1.
MainRaised(op, kind) ==
    /\ calls' = Append(calls, Call(op, kind, FALSE))
    /\ exc' = kind
    /\ exit_code' = Returned(1)
    /\ pc' = "exited"

\* fetcher = DataFetcher(): ValueError when a credential is missing, a
\* user interrupt at any time, else a fetcher with its targets.
MainConstruct ==
    /\ pc = "main"
    /\ \/ /\ ~CredentialsComplete
          /\ MainRaised("DataFetcher", "ValueError")
          /\ UNCHANGED << target_subreddits, reddit_client, config >>
       \/ /\ MainRaised("DataFetcher", "KeyboardInterrupt")
          /\ UNCHANGED << target_subreddits, reddit_client, config >>
       \/ /\ CredentialsComplete
          /\ reddit_client' = "created"
          /\ config' = FETCHING_CONFIG
          /\ target_subreddits' \in SeqsUpTo(Names, MaxTargets)
          /\ calls' = Append(calls, Call("DataFetcher", None, TRUE))
          /\ pc' = "main_fetch"
          /\ UNCHANGED << exc, exit_code >>
    /\ UNCHANGED << fetchVars, FETCHING_CONFIG, DEFAULT_SUBREDDITS,
                    FULL_SUBREDDIT_LIST, credentials, request, listing,
                    result, evaluated, queue, shared_objects, args >>

\* The summary fetch_all_data has built when targets k.. are still to do,
\* ok[k] telling whether the fetch of target k returned.
RECURSIVE SummaryFrom(_, _, _, _)
SummaryFrom(s, targets, ok, k) ==
    IF k > Len(targets) THEN s
    ELSE SummaryFrom(
             IF ok[k] THEN RecordSuccess(s, NewSnapshot(targets[k]))
             ELSE RecordFailure(s, targets[k], "error"),
             targets, ok, k + 1)

\* data = fetcher.fetch_all_data(): the run completes, any of its targets
\* failed or none, or a user interrupt ends it.
MainFetchAll ==
    /\ pc = "main_fetch"
    /\ \/ /\ \E ok \in [1..Len(target_subreddits) -> BOOLEAN] :
                summary' = SummaryFrom(ZeroSummary, target_subreddits, ok, 1)
          /\ metadata' = [total_subreddits |-> Len(target_subreddits),
                          subreddit_list |-> target_subreddits,
                          fetch_completed |-> TRUE]
          /\ calls' = Append(calls, Call("fetch_all_data", None, TRUE))
          /\ pc' = "main_summary"
          /\ UNCHANGED << exc, exit_code >>
       \/ /\ MainRaised("fetch_all_data", "KeyboardInterrupt")
          /\ UNCHANGED << summary, metadata >>
    /\ UNCHANGED << target_subreddits, i, subreddits, subreddit_data, posts,
                    platform, attempts, FETCHING_CONFIG, DEFAULT_SUBREDDITS,
                    FULL_SUBREDDIT_LIST, credentials, reddit_client, config,
                    request, listing, result, evaluated, queue,
                    shared_objects, args >>

\* The final results are printed: a print can raise (the output closed),
\* and a user interrupt can arrive.
MainSummary ==
    /\ pc = "main_summary"
    /\ \/ /\ calls' = Append(calls, Call("print_summary", None, TRUE))
          /\ pc' = "main_save"
          /\ UNCHANGED << exc, exit_code >>
       \/ \E kind \in {"Exception", "KeyboardInterrupt"} :
             MainRaised("print_summary", kind)
    /\ UNCHANGED << target_subreddits, fetchVars, selVars, shared_objects >>

\* MainSave with save_data_to_file lacking its try block: an error of the
\* write reaches main()'s handler.
MainSavePropagating ==
    /\ pc = "main_save"
    /\ \/ /\ calls' = Append(calls, Call("save_data_to_file", None, TRUE))
          /\ exit_code' = Returned(0)
          /\ pc' = "exited"
          /\ exc' = exc
       \/ \E kind \in {"Exception", "KeyboardInterrupt"} :
             MainRaised("save_data_to_file", kind)
    /\ UNCHANGED << target_subreddits, fetchVars, FETCHING_CONFIG,
                    DEFAULT_SUBREDDITS, FULL_SUBREDDIT_LIST, credentials,
                    reddit_client, config, request, listing, result,
                    evaluated, queue, shared_objects, args >>

\* save_data_to_file, the closing message and return 0: an error of the
\* write is caught inside save_data_to_file, a user interrupt is not.
MainSave ==
    /\ pc = "main_save"
    /\ \/ /\ \E kind \in {None, "Exception"} :
                calls' = Append(calls,
                    Call("save_data_to_file", kind, kind = None))
          /\ exit_code' = Returned(0)
          /\ pc' = "exited"
          /\ exc' = exc
       \/ MainRaised("save_data_to_file", "KeyboardInterrupt")
    /\ UNCHANGED << target_subreddits, fetchVars, FETCHING_CONFIG,
                    DEFAULT_SUBREDDITS, FULL_SUBREDDIT_LIST, credentials,
                    reddit_client, config, request, listing, result,
                    evaluated, queue, shared_objects, args >>

NextMain == MainConstruct \/ MainFetchAll \/ MainSummary \/ MainSave

SpecMain == InitMain /\ [][NextMain]_vars

\* ----------------------------------------------- extraction on one handle

\* The handles extraction is applied to.
PostHandles == {Post1, Post2, Post3}

CommentHandles ==
    {node \in Depth1Nodes \cup Depth2Nodes \cup Depth3Nodes :
        node.kind = "Comment"}

\* A DataFetcher holding one handle, about to extract its record.
InitExtract ==
    /\ target_subreddits \in SeqsUpTo(Names, MaxTargets)
    /\ pc = "extract"
    /\ FetchIdle
    /\ evaluated = 0
    /\ queue = <<>>
    /\ result = <<>>
    /\ \/ /\ request = [op |-> "_extract_post_data", limit |-> 0]
          /\ listing \in {<<post>> : post \in PostHandles}
       \/ /\ request = [op |-> "_extract_comment_data", limit |-> 0]
          /\ listing \in {<<comment>> : comment \in CommentHandles}
    /\ MainIdle
    /\ FETCHING_CONFIG = DefaultConfig
    /\ DEFAULT_SUBREDDITS = <<"news", "science">>
    /\ FULL_SUBREDDIT_LIST = <<"news", "science", "funny">>
    /\ credentials = CredentialNames
    /\ reddit_client = "created"
    /\ config = FETCHING_CONFIG

\* ExtractPostData reading the author away from the handle.
ExtractPostDataTakingAuthor ==
    /\ pc = "extract"
    /\ request.op = "_extract_post_data"
    /\ Len(result) < MaxExtractions
    /\ IF listing[1].readable
       THEN /\ result' = Append(result, _extract_post_data(listing[1]))
            /\ listing' = << [listing[1] EXCEPT !.author = None] >>
            /\ UNCHANGED << pc, exc >>
       ELSE /\ exc' = "AttributeError"
            /\ pc' = "extract_raised"
            /\ UNCHANGED << result, listing >>
    /\ UNCHANGED << target_subreddits, calls, fetchVars, FETCHING_CONFIG,
                    DEFAULT_SUBREDDITS, FULL_SUBREDDIT_LIST, credentials,
                    reddit_client, config, request, evaluated, queue,
                    shared_objects, args, exit_code >>

\* self._extract_post_data(post): the record read off the handle, or the
\* error of a handle that cannot be read. Nothing is written.
ExtractPostData ==
    /\ pc = "extract"
    /\ request.op = "_extract_post_data"
    /\ Len(result) < MaxExtractions
    /\ IF listing[1].readable
       THEN /\ result' = Append(result, _extract_post_data(listing[1]))
            /\ UNCHANGED << pc, exc >>
       ELSE /\ exc' = "AttributeError"
            /\ pc' = "extract_raised"
            /\ result' = result
    /\ UNCHANGED << target_subreddits, calls, fetchVars, FETCHING_CONFIG,
                    DEFAULT_SUBREDDITS, FULL_SUBREDDIT_LIST, credentials,
                    reddit_client, config, request, listing, evaluated,
                    queue, shared_objects, args, exit_code >>

\* self._extract_comment_data(comment): the record read off the handle.
ExtractCommentData ==
    /\ pc = "extract"
    /\ request.op = "_extract_comment_data"
    /\ Len(result) < MaxExtractions
    /\ result' = Append(result, _extract_comment_data(listing[1]))
    /\ UNCHANGED << target_subreddits, pc, exc, calls, fetchVars,
                    FETCHING_CONFIG, DEFAULT_SUBREDDITS, FULL_SUBREDDIT_LIST,
                    credentials, reddit_client, config, request, listing,
                    evaluated, queue, shared_objects, args, exit_code >>

NextExtract == ExtractPostData \/ ExtractCommentData

SpecExtract == InitExtract /\ [][NextExtract]_vars

\* fetch_all_data runs and get_top_comments calls, side by side.
InitFetchOrComments == Init \/ InitComments

NextFetchOrComments == Next \/ NextComments

SpecFetchOrComments == InitFetchOrComments /\ [][NextFetchOrComments]_vars

\* ------------------------------------------------------------ the claims

Last(s) == s[Len(s)]

IsFetch(c) == c.op = "_fetch_subreddit_data"

IsFetchOrSleep(c) == c.op = "_fetch_subreddit_data" \/ c.op = "sleep"

\* The targets _fetch_subreddit_data was called for, in call order.
Fetched ==
    LET fetches == SelectSeq(calls, IsFetch)
    IN  [k \in 1..Len(fetches) |-> fetches[k].arg]

\* The fetches and sleeps of the run, in order.
Pacing == SelectSeq(calls, IsFetchOrSleep)

CommentsIn(snapshot_posts) ==
    SumSeq([k \in 1..Len(snapshot_posts) |-> Len(snapshot_posts[k].comments)])

RECURSIVE PostsOfMapping(_, _)
PostsOfMapping(mapping, names) ==
    IF names = {} THEN 0
    ELSE LET n == CHOOSE x \in names : TRUE
         IN  Len(mapping[n].posts) + PostsOfMapping(mapping, names \ {n})

\* The posts (comments) of the snapshots the successful attempts returned.
SuccessfulPosts ==
    SumSeq([k \in 1..Len(attempts) |->
        IF attempts[k].ok THEN Len(attempts[k].posts) ELSE 0])

SuccessfulComments ==
    SumSeq([k \in 1..Len(attempts) |->
        IF attempts[k].ok THEN CommentsIn(attempts[k].posts) ELSE 0])

\* C1: when fetch_all_data has returned, no community named in
\* summary.errors has an entry in the subreddits mapping.
C1_NoFailedCommunityInMapping ==
    pc = "done" =>
        \A k \in 1..Len(summary.errors) :
            summary.errors[k].subreddit \notin DOMAIN subreddits

\* C2: when fetch_all_data has returned, summary.total_posts is the sum of
\* len(posts) over the snapshots present in the subreddits mapping.
C2_TotalPostsIsSumOverMapping ==
    pc = "done" =>
        summary.total_posts = PostsOfMapping(subreddits, DOMAIN subreddits)

\* C3: total_posts and total_comments are, at every moment of the run, the
\* sums over the attempts that returned a snapshot of that snapshot's post
\* count and of its posts' comment-list lengths; an attempt that raised,
\* even after some of its posts were processed, adds nothing.
C3_TotalsAreSumsOverSuccesses ==
    /\ summary.total_posts = SuccessfulPosts
    /\ summary.total_comments = SuccessfulComments

\* A finished run in which one target raised after a post of it had been
\* processed and another target's snapshot brought posts and comments.
C3_Witness ==
    /\ pc = "done"
    /\ \E k \in 1..Len(attempts) :
          ~attempts[k].ok /\ attempts[k].processed > 0
    /\ summary.total_posts > 0
    /\ summary.total_comments > 0

\* C4: the targets are attempted once each, in input order, whatever the
\* earlier outcomes: the attempted targets are always a prefix of the
\* target list, one attempt is open or none, and the run ends only when
\* the whole list was attempted.
C4_EveryTargetAttemptedOnceInOrder ==
    /\ Len(Fetched) <= Len(target_subreddits)
    /\ Fetched = SubSeq(target_subreddits, 1, Len(Fetched))
    /\ Len(attempts) <= Len(Fetched)
    /\ Len(Fetched) <= Len(attempts) + 1
    /\ pc \in {"finalize", "done"} =>
          /\ Fetched = target_subreddits
          /\ Len(attempts) = Len(target_subreddits)

\* A finished run of two targets whose first target failed and whose second
\* was fetched all the same.
C4_Witness ==
    /\ pc = "done"
    /\ Len(target_subreddits) = 2
    /\ ~attempts[1].ok
    /\ attempts[2].ok
    /\ summary.failed_subreddits = 1

\* What _fetch_subreddit_data holds for post k given the platform's answer
\* to that post's comment fetch.
ExpectedComments(k) ==
    IF platform.comments[k].ok
    THEN ExtractComments(
             get_top_comments(platform.comments[k].forest, comments_per_post))
    ELSE <<>>

C5_AtReturn ==
    pc = "return" =>
        /\ Len(subreddit_data.posts) = Len(posts)
        /\ \A k \in 1..Len(posts) :
              /\ subreddit_data.posts[k].id = posts[k].id
              /\ subreddit_data.posts[k].comments = ExpectedComments(k)

C5_FailedCommentFetch ==
    (pc = "post" /\ calls' # calls /\ ~Last(calls').ok) =>
        /\ pc' \in {"post", "return"}
        /\ Len(subreddit_data'.posts) = Len(subreddit_data.posts) + 1
        /\ Last(subreddit_data'.posts).comments = <<>>
        /\ Last(subreddit_data'.posts).id = posts[Len(subreddit_data'.posts)].id
        /\ SubSeq(subreddit_data'.posts, 1, Len(subreddit_data.posts))
              = subreddit_data.posts
        /\ summary' = summary

C5_ReturnedAsSuccess ==
    pc = "return" =>
        /\ summary'.errors = summary.errors
        /\ summary'.failed_subreddits = summary.failed_subreddits
        /\ summary'.successful_subreddits = summary.successful_subreddits + 1
        /\ subreddits'[target_subreddits[i]] = subreddit_data

\* C5: a comment fetch that fails for one post gives that post an empty
\* comment list and nothing else: the post is appended, the posts before
\* it keep their comments, every post of the returned snapshot carries
\* exactly what its own comment fetch gave, and the snapshot is recorded
\* as a success with no entry added to summary.errors.
C5_CommentFailureIsolated ==
    /\ []C5_AtReturn
    /\ [][C5_FailedCommentFetch]_vars
    /\ [][C5_ReturnedAsSuccess]_vars

\* A snapshot about to be returned with two posts, the first with its
\* fetched comments, the second with a failed comment fetch.
C5_Witness ==
    /\ pc = "return"
    /\ Len(posts) = 2
    /\ platform.comments[1].ok
    /\ subreddit_data.posts[1].comments # <<>>
    /\ ~platform.comments[2].ok

C6_AtReturn ==
    (pc = "return" /\ platform.info = "raise") =>
        /\ subreddit_data.info = EmptyInfo
        /\ platform.hot = "ok"
        /\ Len(platform.comments) = Len(posts)
        /\ Len(subreddit_data.posts) = Len(posts)

C6_FailedInfoFetch ==
    (pc = "fetch" /\ calls' # calls /\ ~Last(calls').ok) =>
        /\ pc' = "hot"
        /\ subreddit_data'.info = EmptyInfo
        /\ exc' = exc

\* C6: a failed metadata fetch leaves info empty and does not abort the
\* community: the next step is the hot-post listing, and a snapshot
\* returned after it has run the listing and one comment fetch per post.
C6_InfoFailureIsolated ==
    /\ []C6_AtReturn
    /\ [][C6_FailedInfoFetch]_vars

\* A snapshot about to be returned with a post, its metadata fetch failed.
C6_Witness ==
    /\ pc = "return"
    /\ platform.info = "raise"
    /\ Len(subreddit_data.posts) >= 1
    /\ subreddit_data.info = EmptyInfo

\* C7: fetches and sleeps alternate, beginning with a fetch, so every
\* sleep is after a target that is not the last and before the next one,
\* after a success as after a failure; a finished run over N >= 1 targets
\* has made N fetches and N - 1 sleeps, none after the last target.
C7_SleepBetweenTargetsOnly ==
    /\ \A k \in 1..Len(Pacing) :
          Pacing[k].op = IF k % 2 = 1 THEN "_fetch_subreddit_data" ELSE "sleep"
    /\ pc = "done" =>
          Len(Pacing) = IF target_subreddits = <<>> THEN 0
                        ELSE 2 * Len(target_subreddits) - 1

\* A finished run of two targets, the first failed, with its one sleep.
C7_Witness ==
    /\ pc = "done"
    /\ Len(target_subreddits) = 2
    /\ ~attempts[1].ok
    /\ Len(Pacing) = 3
    /\ Pacing[2].op = "sleep"

\* C8: with use_development_list set, the constructed fetcher's targets
\* are the development list as configured, in its order and with its
\* duplicates, and the popular listing was never asked for, whatever
\* use_dynamic_discovery says.
C8_DevelopmentListUnchanged ==
    (pc = "constructed" /\ config.use_development_list) =>
        /\ target_subreddits = DEFAULT_SUBREDDITS
        /\ calls = <<>>

\* A fetcher constructed in development mode with dynamic discovery on and
\* a development list that names a community twice.
C8_Witness ==
    /\ pc = "constructed"
    /\ config.use_development_list
    /\ config.use_dynamic_discovery
    /\ target_subreddits = <<"science", "news", "science">>

PopularFailed == calls # <<>> /\ ~Last(calls).ok

\* C9: in production mode with dynamic discovery, an error of the popular
\* listing ends in a constructed fetcher whose targets are the static
\* list; the only error that leaves DataFetcher() is the client's missing
\* credentials.
C9_DiscoveryErrorFallsBack ==
    /\ (pc \in {"constructed", "construct_raised"} /\ PopularFailed) =>
          /\ pc = "constructed"
          /\ target_subreddits = FULL_SUBREDDIT_LIST
    /\ pc = "construct_raised" =>
          exc = "Missing required Reddit API credentials"

\* A fetcher constructed in production mode after the popular listing
\* raised.
C9_Witness ==
    /\ pc = "constructed"
    /\ ~config.use_development_list
    /\ config.use_dynamic_discovery
    /\ PopularFailed
    /\ target_subreddits # <<>>

ThresholdOf(op) ==
    IF op = "get_trending_subreddits" THEN TrendingThreshold
    ELSE PopularThreshold

\* C10: every name a discovery call returns is the name of a candidate of
\* the listing that is not over-18, whose lower-cased name holds no
\* block-list substring, and whose subscriber count, if known, is at least
\* the threshold of the call.
C10_ReturnedNamesPassFilter ==
    pc = "client_returned" =>
        \A k \in 1..Len(result) :
            \E c \in 1..Len(listing) :
                /\ listing[c].display_name = result[k]
                /\ ~listing[c].over18
                /\ ~HasExcludedKeyword(listing[c].display_name)
                /\ listing[c].subscribers.known =>
                      listing[c].subscribers.count >= ThresholdOf(request.op)

\* s is t with some elements left out, the others in t's order.
RECURSIVE IsSubsequence(_, _)
IsSubsequence(s, t) ==
    IF s = <<>> THEN TRUE
    ELSE IF t = <<>> THEN FALSE
    ELSE IF Head(s) = Head(t) THEN IsSubsequence(Tail(s), Tail(t))
    ELSE IsSubsequence(s, Tail(t))

DisplayNames(candidates) ==
    [k \in 1..Len(candidates) |-> candidates[k].display_name]

PopularReturned ==
    pc = "client_returned" /\ request.op = "get_popular_subreddits"

\* C11: get_popular_subreddits returns at most limit names, and they are
\* a subsequence of the listing's display names, in the listing's order.
C11_AtMostLimitInListingOrder ==
    PopularReturned =>
        /\ Len(result) <= request.limit
        /\ IsSubsequence(result, DisplayNames(listing))

\* Two names returned from a listing of three, a rejected candidate
\* standing between them.
C11_Witness ==
    /\ PopularReturned
    /\ Len(listing) = 3
    /\ Len(result) = 2
    /\ result = << listing[1].display_name, listing[3].display_name >>
    /\ listing[1].display_name # listing[3].display_name

IsOver18(c) == c.over18

MatchesBlockList(c) == HasExcludedKeyword(c.display_name)

\* As test_filtering counts small_count.
BelowPopularThreshold(c) == TooFewSubscribers(c.subscribers, PopularThreshold)

PassesPopular(c) ==
    ~IsOver18(c) /\ ~MatchesBlockList(c) /\ ~BelowPopularThreshold(c)

RECURSIVE IndexOfNthPassing(_, _, _)
IndexOfNthPassing(candidates, n, k) ==
    IF k > Len(candidates) THEN Len(candidates)
    ELSE IF Len(SelectSeq(SubSeq(candidates, 1, k), PassesPopular)) >= n
    THEN k
    ELSE IndexOfNthPassing(candidates, n, k + 1)

IsComment(node) == node.kind = "Comment"

\* The replies of the comments of one level, parents in level order.
RECURSIVE RepliesOf(_)
RepliesOf(level) ==
    IF level = <<>> THEN <<>>
    ELSE (IF IsComment(Head(level)) THEN Head(level).replies ELSE <<>>)
             \o RepliesOf(Tail(level))

\* The breadth-first flattening of a forest, level after level, the nodes
\* that are not comments left out.
RECURSIVE BreadthFirst(_)
BreadthFirst(level) ==
    IF level = <<>> THEN <<>>
    ELSE SelectSeq(level, IsComment) \o BreadthFirst(RepliesOf(level))

CommentsWithinLimit(snapshot) ==
    \A k \in 1..Len(snapshot.posts) :
        Len(snapshot.posts[k].comments) <= comments_per_post

\* C14: no post of a snapshot, under construction or stored in the
\* mapping, has more than comments_per_post comments, and a
\* get_top_comments call returns at most limit comments.
C14_CommentsWithinLimit ==
    /\ CommentsWithinLimit(subreddit_data)
    /\ \A name \in DOMAIN subreddits : CommentsWithinLimit(subreddits[name])
    /\ pc = "comments_returned" => Len(result) <= request.limit

\* A returned snapshot with a post whose forest held more comments than
\* comments_per_post, cut to comments_per_post.
C14_Witness ==
    /\ pc = "return"
    /\ \E k \in 1..Len(subreddit_data.posts) :
          /\ platform.comments[k].ok
          /\ Len(BreadthFirst(platform.comments[k].forest)) > comments_per_post
          /\ Len(subreddit_data.posts[k].comments) = comments_per_post

\* C16: get_top_comments returns the first limit elements of the
\* breadth-first flattening of the forest, the nodes that are not comments
\* left out.
C16_BreadthFirstPrefix ==
    pc = "comments_returned" =>
        LET flat == BreadthFirst(listing)
        IN  result = SubSeq(flat, 1, Min(request.limit, Len(flat)))

\* Two top-level comments, the first with a reply and a placeholder under
\* it: the second top-level comment is returned before the reply, and the
\* limit cuts the flattening short.
C16_Witness ==
    /\ pc = "comments_returned"
    /\ Len(listing) = 2
    /\ IsComment(listing[1])
    /\ IsComment(listing[2])
    /\ Len(listing[1].replies) = 2
    /\ IsComment(listing[1].replies[1])
    /\ ~IsComment(listing[1].replies[2])
    /\ request.limit = 3
    /\ Len(BreadthFirst(listing)) > 3
    /\ result = << listing[1], listing[2], listing[1].replies[1] >>

\* C15: the listing get_hot_posts returned has at most
\* posts_per_subreddit handles, a snapshot under construction has at most
\* one post per handle, and every snapshot of the mapping has at most
\* posts_per_subreddit posts.
C15_PostsWithinLimit ==
    /\ Len(posts) <= posts_per_subreddit
    /\ Len(subreddit_data.posts) <= Len(posts)
    /\ \A name \in DOMAIN subreddits :
          Len(subreddits[name].posts) <= posts_per_subreddit

\* A snapshot stored with as many posts as the limit allows.
C15_Witness ==
    /\ pc = "done"
    /\ \E name \in DOMAIN subreddits :
          Len(subreddits[name].posts) = posts_per_subreddit

\* The record extracted from a handle has an author, the sentinel when the
\* handle has none, and never the empty string.
AuthorRecorded(handle, record) ==
    /\ "author" \in DOMAIN record
    /\ record.author # ""
    /\ record.author # None
    /\ handle.author = None => record.author = "[deleted]"

\* C17: every post record and every comment record of the snapshot under
\* construction has an author field, which is "[deleted]" when the handle
\* it was extracted from has no author, and is never empty.
C17_AuthorAlwaysRecorded ==
    \A k \in 1..Len(subreddit_data.posts) :
        /\ AuthorRecorded(posts[k], subreddit_data.posts[k])
        /\ platform.comments[k].ok =>
              LET handles == get_top_comments(platform.comments[k].forest,
                                              comments_per_post)
                  records == subreddit_data.posts[k].comments
              IN  /\ Len(records) = Len(handles)
                  /\ \A j \in 1..Len(records) :
                        AuthorRecorded(handles[j], records[j])

\* A snapshot with a post and a comment whose handles have no author, and
\* with a post whose handle has one.
C17_Witness ==
    /\ pc = "return"
    /\ \E k \in 1..Len(subreddit_data.posts) :
          /\ posts[k].author = None
          /\ subreddit_data.posts[k].author = "[deleted]"
    /\ \E k \in 1..Len(subreddit_data.posts) :
          /\ posts[k].author # None
          /\ subreddit_data.posts[k].author = posts[k].author
    /\ \E k \in 1..Len(subreddit_data.posts) :
          /\ platform.comments[k].ok
          /\ \E j \in 1..Len(subreddit_data.posts[k].comments) :
                /\ get_top_comments(platform.comments[k].forest,
                                    comments_per_post)[j].author = None
                /\ subreddit_data.posts[k].comments[j].author = "[deleted]"

NoFetchRaised == \A k \in 1..Len(attempts) : attempts[k].ok

PairwiseDistinct(s) ==
    \A a, b \in 1..Len(s) : a # b => s[a] # s[b]

\* C18: a finished run whose targets are pairwise distinct and none of
\* whose fetches raised counts every target as successful, none as failed,
\* has no error entry, and maps each target to a snapshot.
C18_AllSucceeded ==
    (pc = "done" /\ NoFetchRaised /\ PairwiseDistinct(target_subreddits)) =>
        LET n == Len(target_subreddits)
        IN  /\ summary.successful_subreddits = n
            /\ summary.failed_subreddits = 0
            /\ summary.errors = <<>>
            /\ metadata.total_subreddits = n
            /\ DOMAIN subreddits =
                  {target_subreddits[k] : k \in 1..n}
            /\ Cardinality(DOMAIN subreddits) = n

\* Two distinct targets, both fetched without a raise, the first with two
\* posts.
C18_Witness ==
    /\ pc = "done"
    /\ Len(target_subreddits) = 2
    /\ PairwiseDistinct(target_subreddits)
    /\ NoFetchRaised
    /\ Len(attempts) = 2
    /\ Len(attempts[1].posts) = 2
    /\ summary.successful_subreddits = 2

MainExited == pc = "exited"

\* Some step of main() was ended by the exception kind.
MainStepRaised(op, kind) ==
    \E k \in 1..Len(calls) :
        calls[k].op = op /\ calls[k].arg = kind /\ ~calls[k].ok

RaisedBeforeFetchCompleted ==
    \/ MainStepRaised("DataFetcher", "ValueError")
    \/ MainStepRaised("DataFetcher", "KeyboardInterrupt")
    \/ MainStepRaised("fetch_all_data", "KeyboardInterrupt")

\* The statement of C19 as written: exit code 0 whenever fetch_all_data
\* completed, non-zero when construction or collection was ended by an
\* exception or a user interrupt.
C19_ZeroWheneverFetchCompleted ==
    MainExited =>
        /\ metadata.fetch_completed => exit_code = Returned(0)
        /\ RaisedBeforeFetchCompleted =>
              exit_code.returned /\ exit_code.code # 0

\* C19: main() returns 0 exactly when fetch_all_data completed, however
\* many communities failed, the summary was printed without an exception
\* and no user interrupt arrived before the return, a failed write of the
\* output file changing nothing; otherwise it returns 1.
C19_ExitCode ==
    MainExited =>
        /\ exit_code \in {Returned(0), Returned(1)}
        /\ exit_code = Returned(0) <=>
              /\ metadata.fetch_completed
              /\ ~MainStepRaised("print_summary", "Exception")
              /\ ~MainStepRaised("print_summary", "KeyboardInterrupt")
              /\ ~MainStepRaised("save_data_to_file", "KeyboardInterrupt")
        /\ RaisedBeforeFetchCompleted => exit_code = Returned(1)

\* Every community failed and the output file could not be written:
\* main() returned 0.
C19_Witness ==
    /\ MainExited
    /\ exit_code = Returned(0)
    /\ metadata.fetch_completed
    /\ Len(target_subreddits) = 2
    /\ summary.failed_subreddits = 2
    /\ MainStepRaised("save_data_to_file", "Exception")

SomeCredentialMissing == credentials # CredentialNames

\* C20: while a credential is missing and no client was handed to the
\* DataFetcher, construction can only raise "Missing required Reddit API
\* credentials": the platform client is never created, no target is
\* selected and no call is made on the platform.
C20_NoCallWithoutCredentials ==
    (SomeCredentialMissing /\ reddit_client # "mock") =>
        /\ pc \in {"new", "construct_raised"}
        /\ pc = "construct_raised" =>
              exc = "Missing required Reddit API credentials"
        /\ reddit_client = "none"
        /\ calls = <<>>
        /\ target_subreddits = <<>>

\* One credential of three missing, dynamic discovery configured:
\* construction raised before the popular listing was asked for.
C20_Witness ==
    /\ pc = "construct_raised"
    /\ Cardinality(credentials) = 2
    /\ ~FETCHING_CONFIG.use_development_list
    /\ FETCHING_CONFIG.use_dynamic_discovery
    /\ FETCHING_CONFIG.dynamic_subreddit_count > 0
    /\ exc = "Missing required Reddit API credentials"
    /\ reddit_client = "none"
    /\ calls = <<>>

RECURSIVE FailedTargetsUpTo(_)
FailedTargetsUpTo(k) ==
    IF k = 0 THEN <<>>
    ELSE IF attempts[k].ok THEN FailedTargetsUpTo(k - 1)
    ELSE Append(FailedTargetsUpTo(k - 1), target_subreddits[k])

\* C22: errors has one entry {subreddit, error} per failed target and no
\* other: as many entries as failed_subreddits counts, naming the failed
\* targets in their input order.
C22_OneErrorPerFailureInOrder ==
    /\ Len(summary.errors) = summary.failed_subreddits
    /\ \A k \in 1..Len(summary.errors) :
          /\ DOMAIN summary.errors[k] = {"subreddit", "error"}
          /\ summary.errors[k].error # None
    /\ [k \in 1..Len(summary.errors) |-> summary.errors[k].subreddit]
          = FailedTargetsUpTo(Len(attempts))

\* Two different targets, both failed: two entries, in input order.
C22_Witness ==
    /\ pc = "done"
    /\ Len(target_subreddits) = 2
    /\ target_subreddits[1] # target_subreddits[2]
    /\ summary.failed_subreddits = 2
    /\ Len(summary.errors) = 2
    /\ summary.errors[1].subreddit = target_subreddits[1]
    /\ summary.errors[2].subreddit = target_subreddits[2]

Processed == summary.successful_subreddits + summary.failed_subreddits

\* C25: at the top of iteration i the two counters add up to the i - 1
\* targets processed, at the end of its body to i, and after the loop to
\* the length of the target list, which is metadata.total_subreddits.
C25_CountersAddUpToProcessed ==
    /\ Processed = Len(attempts)
    /\ pc = "fetch" => Processed = i - 1
    /\ pc = "pace" => Processed = i
    /\ pc \in {"finalize", "done"} =>
          /\ Processed = Len(target_subreddits)
          /\ Processed = metadata.total_subreddits

\* A finished run over a list naming one community twice, one fetch
\* returned and one raised.
C25_Witness ==
    /\ pc = "done"
    /\ Len(target_subreddits) = 2
    /\ target_subreddits[1] = target_subreddits[2]
    /\ summary.successful_subreddits = 1
    /\ summary.failed_subreddits = 1
    /\ metadata.total_subreddits = 2

\* The names of the targets whose fetch returned, in input order.
SuccessfulNames ==
    LET IsOk(a) == a.ok
        returned == SelectSeq(attempts, IsOk)
    IN  [k \in 1..Len(returned) |-> returned[k].name]

\* The last attempt on name that returned.
LastSuccess(name) ==
    LET last == CHOOSE k \in 1..Len(attempts) :
                    /\ attempts[k].ok /\ attempts[k].name = name
                    /\ \A later \in (k + 1)..Len(attempts) :
                          ~(attempts[later].ok /\ attempts[later].name = name)
    IN  attempts[last]

\* C26: the mapping never has more entries than successful_subreddits
\* counts, has as many exactly when the targets fetched successfully are
\* pairwise distinct, and holds for each name the snapshot of the last
\* successful fetch of that name.
C26_MappingKeepsLastSuccess ==
    /\ Cardinality(DOMAIN subreddits) <= summary.successful_subreddits
    /\ Cardinality(DOMAIN subreddits) = summary.successful_subreddits
          <=> PairwiseDistinct(SuccessfulNames)
    /\ DOMAIN subreddits = {SuccessfulNames[k] : k \in 1..Len(SuccessfulNames)}
    /\ \A name \in DOMAIN subreddits :
          subreddits[name] =
              [name |-> name, info |-> LastSuccess(name).info,
               posts |-> LastSuccess(name).posts]

\* One community named twice, both fetches returned with different posts:
\* one entry, the second fetch's snapshot.
C26_Witness ==
    /\ pc = "done"
    /\ Len(attempts) = 2
    /\ attempts[1].ok /\ attempts[2].ok
    /\ attempts[1].name = attempts[2].name
    /\ attempts[1].posts # attempts[2].posts
    /\ summary.successful_subreddits = 2
    /\ Cardinality(DOMAIN subreddits) = 1
    /\ subreddits[attempts[2].name].posts = attempts[2].posts

DiscoveryEnded == pc \in {"client_returned", "client_raised"}

\* C23: a discovery call makes one call on the platform and no other: the
\* popular listing, asked for 2 x limit candidates by
\* get_popular_subreddits and for 3 x limit by get_trending_subreddits.
C23_OneRequestOfFixedMultiple ==
    DiscoveryEnded =>
        /\ Len(calls) = 1
        /\ calls[1].op = "subreddits.popular"
        /\ request.op = "get_popular_subreddits" =>
              calls[1].arg = 2 * request.limit
        /\ request.op = "get_trending_subreddits" =>
              calls[1].arg = 3 * request.limit

\* Three candidates answered to a request for 2 x 2, one of them passing:
\* one name returned, and no second request.
C23_Witness ==
    /\ PopularReturned
    /\ request.limit = 2
    /\ Len(listing) = 3
    /\ Len(result) = 1
    /\ calls = << Call("subreddits.popular", 4, TRUE) >>

\* C24: the step that starts fetch_all_data sets metadata.subreddit_list
\* to the target list and metadata.total_subreddits to its length; no step
\* of the run changes the target list; and from then on no step, the
\* caller's later change of the target list included, changes either
\* field.
C24_SubredditListIsSnapshot ==
    [][/\ pc = "idle" =>
             /\ metadata'.subreddit_list = target_subreddits
             /\ metadata'.total_subreddits = Len(target_subreddits)
       /\ pc \notin {"done", "targets_changed"} =>
             target_subreddits' = target_subreddits
       /\ pc # "idle" =>
             /\ metadata'.subreddit_list = metadata.subreddit_list
             /\ metadata'.total_subreddits = metadata.total_subreddits]_vars

\* The target list was changed after a run over two targets: the
\* metadata still has the two.
C24_Witness ==
    /\ pc = "targets_changed"
    /\ Len(target_subreddits) = 3
    /\ metadata.subreddit_list = SubSeq(target_subreddits, 1, 2)
    /\ metadata.total_subreddits = 2
    /\ metadata.fetch_completed

\* Discovery was asked, answered, and accepted no candidate of a listing.
DiscoveryAcceptedNone ==
    /\ pc = "constructed"
    /\ ~config.use_development_list
    /\ config.use_dynamic_discovery
    /\ Len(calls) = 1
    /\ calls[1].op = "subreddits.popular"
    /\ calls[1].ok
    /\ \A k \in 1..Len(listing) : ~PassesPopular(listing[k])

\* fetch_all_data is past its loop over an empty target list.
EmptyRunPastLoop ==
    /\ pc \in {"finalize", "done"}
    /\ target_subreddits = <<>>

\* C28: when discovery succeeds and accepts no candidate the target list
\* is empty, whatever the static lists are; and fetch_all_data over an
\* empty target list makes no platform call and no sleep and returns
\* zero counts, no error and an empty mapping.
C28_EmptyDiscoveryEmptyRun ==
    /\ DiscoveryAcceptedNone => target_subreddits = <<>>
    /\ EmptyRunPastLoop =>
          /\ calls = <<>>
          /\ platform = NoPlatform
          /\ summary = ZeroSummary
          /\ subreddits = EmptyDict
          /\ metadata.total_subreddits = 0
          /\ metadata.subreddit_list = <<>>

\* Discovery answered with three candidates, none accepted, while the
\* static production list has names: the target list is empty.
C28_Witness ==
    /\ DiscoveryAcceptedNone
    /\ Len(listing) = 3
    /\ config.dynamic_subreddit_count = 2
    /\ FULL_SUBREDDIT_LIST # <<>>
    /\ target_subreddits = <<>>

\* The run over an empty target list has returned.
C28_WitnessEmptyRun ==
    /\ EmptyRunPastLoop
    /\ pc = "done"
    /\ metadata.fetch_completed
    /\ summary.errors = <<>>

\* Node is among the comments reached from the forest through comments
\* only.
ReachedThroughComments(node, forest) ==
    LET flat == BreadthFirst(forest)
    IN  \E k \in 1..Len(flat) : flat[k] = node

\* The loop stands before a queue whose head is not a Comment.
HeadIsNotComment ==
    /\ pc = "comments_loop"
    /\ queue # <<>>
    /\ ~IsComment(Head(queue))

\* C30: a step of get_top_comments that meets a queue head that is not a
\* Comment leaves the result as it is and, when the loop goes on, only
\* takes the head off the queue; and every element collected or returned
\* is a Comment reached from the top-level list through comments only.
C30_NonCommentsDropped ==
    /\ [](pc \in {"comments_loop", "comments_returned"} =>
            \A k \in 1..Len(result) :
                /\ IsComment(result[k])
                /\ ReachedThroughComments(result[k], listing))
    /\ [][HeadIsNotComment =>
             /\ result' = result
             /\ pc' = "comments_loop" => queue' = Tail(queue)]_vars

\* A node that is not a Comment and has a Comment reply came first in the
\* forest: the call returned the comment after it, and neither the node
\* nor its reply, though the limit left room for both.
C30_Witness ==
    /\ pc = "comments_returned"
    /\ Len(listing) = 2
    /\ ~IsComment(listing[1])
    /\ listing[1].replies # <<>>
    /\ IsComment(listing[2])
    /\ request.limit = MaxCommentLimit
    /\ result = << listing[2] >>

\* The loop taken in steps returns what get_top_comments returns.
LoopAgreesWithGetTopComments ==
    pc = "comments_returned" =>
        result = get_top_comments(listing, request.limit)

\* C29: a call of fetch_all_data comes to its return, and the Run Result
\* it returns carries fetch_duration_seconds and fetch_completed_at,
\* whatever the platform calls did; a call of get_top_comments comes to
\* its return or re-raises, and its loop once entered comes to the return.
C29_CallsTerminate ==
    /\ (pc = "idle") ~> (pc = "done")
    /\ [](pc = "done" => metadata.fetch_completed)
    /\ (pc = "comments") ~> (pc \in {"comments_returned", "comments_raised"})
    /\ (pc = "comments_loop") ~> (pc = "comments_returned")

\* The run over two targets has returned with both failed and the
\* completion fields set.
C29_Witness ==
    /\ pc = "done"
    /\ Len(target_subreddits) = 2
    /\ summary.failed_subreddits = 2
    /\ summary.successful_subreddits = 0
    /\ metadata.fetch_completed

====
